---- MODULE Spec2Model ----
(***************************************************************************)
(* A model of the selenium-state-machine driver (src/src/StateMachine.ts), *)
(* its states (src/src/State.ts), the Provide builder's result             *)
(* (src/unnamed/part_002) and the dependencies (src/unnamed/part_001).     *)
(*                                                                         *)
(* One driver loop (helperStart) is modelled at the points where it can be *)
(* observed: before start ("idle"), at the top of an iteration ("top"),    *)
(* while the state function is in flight ("exec"), when the state function *)
(* has settled and the loop's continuation has not run yet ("settled"),    *)
(* and when the promise of helperStart has settled ("done").               *)
(***************************************************************************)
EXTENDS Integers, Sequences, FiniteSets, TLC

\* ------------------------------------------------------------------ bounds

\* Largest time budget a machine is constructed with (context.timeout).
MaxBudget == 2
\* Largest wall-clock delta (Date.now() - started) one attempt measures.
MaxDelta == 1
\* Largest iteration counter up to which a state function still asks to stay
\* on its state (repeat, or a transition to its own name).
MaxCounter == 1
\* Largest number of transition listeners registered.
MaxListeners == 1
\* Largest timeout a state is registered with.
MaxStateTimeout == 1
\* Largest number of ValueDependency instances constructed.
MaxInstances == 2

\* The timeouts timers are created with go up to this.
MaxTimerTimeout == 1
\* Largest finite timeout waitUntilReached is called with.
MaxWait == 2

\* -------------------------------------------------------- program constants

\* State.timeout of a state without a timeout: Number.POSITIVE_INFINITY.
Infinity == -1
\* ValueDependency._provider of a dependency no state has provided: undefined.
NoProvider == -1
\* ValueDependency._value of a dependency that holds no value: undefined.
Unset == 0
\* null, which `??` treats like undefined.
Null == -2

\* Names the registered states get, in registration order.
StateNames == <<"A", "B", "C">>
\* The dependencies declared for the machine (declareDependencies).
DepIds == {"X"}
\* A name no state is registered under.
UnknownName == "nowhere"
\* Values a state function provides for a dependency.
Values == {1}
\* Values a ValueDependency is constructed with or set to.
DepValues == {1, 2}

\* Error classes, by name.
NoError == "none"
StaleDependencyReferenceError == "StaleDependencyReferenceError"
StaleElementReferenceError == "StaleElementReferenceError"
NoSuchElementError == "NoSuchElementError"
ElementClickInterceptedError == "ElementClickInterceptedError"
CriticalError == "CriticalError"
TimeoutError == "TimeoutError"
OtherError == "Error"

\* What a state function can throw.
ThrownErrors ==
    { StaleDependencyReferenceError, StaleElementReferenceError,
      NoSuchElementError, ElementClickInterceptedError, CriticalError, OtherError }

\* e instanceof cls: StaleDependencyReferenceError extends
\* error.StaleElementReferenceError, every other class stands alone.
InstanceOf(e, cls) ==
    \/ e = cls
    \/ e = StaleDependencyReferenceError /\ cls = StaleElementReferenceError

\* What a transition listener does when notify() calls it: it returns (a
\* value or a promise, whatever becomes of the promise: notify() is not
\* awaited), or it throws before it returns.
ListenerKinds == {"ok", "throwBenign", "throwFatal"}

VARIABLES
    states,               \* _states: <<[name, index, timeout, provideConfig]>>
    transitionCallbacks,  \* _transitionCallbacks: the registered listeners
    dependencies,         \* the dependency map: id -> [value, provider]
    userContext,          \* _context.userContext
    timeout,              \* _context.timeout: the remaining budget
    timers,               \* _context.timers: name -> the timer's deadline
    i,                    \* _i
    stateCounter,         \* _stateCounter
    timeOnState,          \* _timeOnState
    reachedStates,        \* _reachedStates
    running,              \* _running
    promise,              \* _promise: "none", "pending", "resolved" or the error
    pc,                   \* where helperStart is
    inflight,             \* how the state function in flight settled
    last,                 \* history: what the last continuation of the loop did
    notified,             \* history: what the listeners of the last cycle saw
    execLog,              \* history: the states executed (kept in the scenario)
    heap,                 \* the ValueDependency instances constructed, by address
    depCall,              \* the last call on a ValueDependency and what came of it
    probe,                \* the last call of the machine's or a Provide's
                          \* members by the user's code and what came of it
    waiter,               \* a call of waitUntilReached: where it is
    pc2,                  \* where the helperStart of a further start() is
    inflight2,            \* how the state function that one has in flight settled
    promise2              \* the promise of that helperStart

machineVars ==
    <<dependencies, userContext, timeout, timers, i, stateCounter, timeOnState,
      reachedStates, running>>
configVars == <<states, transitionCallbacks>>
loopVars == <<promise, pc, inflight>>
histVars == <<last, notified, execLog>>
depVars == <<heap, depCall>>
loop2Vars == <<pc2, inflight2, promise2>>
apiVars == <<probe, waiter, loop2Vars>>
vars == <<configVars, machineVars, loopVars, histVars, depVars, apiVars>>

\* ---------------------------------------------------------------- helpers

Max(a, b) == IF a >= b THEN a ELSE b

\* {...a, ...b}
Merge(a, b) ==
    [k \in (DOMAIN a) \cup (DOMAIN b) |-> IF k \in DOMAIN b THEN b[k] ELSE a[k]]

\* _states.length
NumStates == Len(states)

\* i < this._states.length ? this._states[i].name : 'end'
NameAt(k) == IF k < NumStates THEN states[k + 1].name ELSE "end"

\* currentState
currentState == NameAt(i)

\* _nameMap.get(name): the index of the last state registered under name, or
\* -1 for undefined.
NameMapGet(name) ==
    LET hits == { k \in 0..(NumStates - 1) : states[k + 1].name = name }
    IN  IF hits = {} THEN -1 ELSE CHOOSE k \in hits : \A h \in hits : h <= k

\* Mutant: the state's timeout has to be exceeded, not reached.
StateTimedOutStrict(stateTimeout, elapsed) ==
    stateTimeout # Infinity /\ stateTimeout < elapsed

\* state.timeout <= this._timeOnState
StateTimedOut(stateTimeout, elapsed) ==
    stateTimeout # Infinity /\ stateTimeout <= elapsed

\* new Timer(budget, timeoutMs): the deadline it keeps.
TimerDeadline(budget, timeoutMs) == Max(0, budget - timeoutMs)

\* timer.elapsed(budget)
TimerElapsed(deadline, budget) == budget <= deadline

\* {}: an object without keys.
EmptyMap == [k \in {} |-> 0]

NoProvide ==
    [ repeat |-> FALSE, next |-> FALSE, prev |-> FALSE, nextStateName |-> "",
      updateMap |-> EmptyMap, newTimers |-> <<>>, staleTimers |-> <<>>,
      context |-> EmptyMap ]

NoOutcome ==
    [ kind |-> "none", err |-> NoError, dep |-> "", provider |-> NoProvider,
      p |-> NoProvide, delta |-> 0, rewrote |-> "", patch |-> EmptyMap ]

\* No member called yet.  name and arg are the arguments, thrown the error
\* raised, ret the answer ("true", "false", "undefined", or "none" for void).
NoProbe ==
    [ op |-> "none", name |-> "", arg |-> 0, thrown |-> NoError, ret |-> "none" ]

\* No call of waitUntilReached yet.  timeout is the argument (Infinity for
\* none), left is end - Date.now().
NoWaiter == [ pc |-> "none", name |-> "", timeout |-> 0, left |-> 0 ]

NoLast ==
    [ kind |-> "none", from |-> 0, err |-> NoError, provider |-> NoProvider,
      rewrote |-> "", said |-> {} ]
NoNotify == [ fired |-> 0, saw |-> {} ]

\* ------------------------------------------------------------ dependencies

\* a ?? b
Coalesce(a, b) == IF a \in {Unset, Null} THEN b ELSE a

\* new ValueDependency({name, value})
DependencyNew(name, value) ==
    [ name |-> name, value |-> value, provider |-> NoProvider ]

\* Mutant: a provider can be assigned again.
DependencyProviderSetAgain(dep, provider) ==
    [ dep |-> [ dep EXCEPT !.provider = provider ], thrown |-> NoError ]

\* set provider(v): CriticalError for an instance that has a provider.
DependencyProviderSet(dep, provider) ==
    IF dep.provider # NoProvider
    THEN [ dep |-> dep, thrown |-> CriticalError ]
    ELSE [ dep |-> [ dep EXCEPT !.provider = provider ], thrown |-> NoError ]

\* get value(): CriticalError for an instance without a value.
DependencyValue(dep) ==
    IF dep.value = Unset
    THEN [ thrown |-> CriticalError, ret |-> Unset ]
    ELSE [ thrown |-> NoError, ret |-> dep.value ]

\* get ready(): this.value !== undefined, through the getter of value.
DependencyReady(dep) ==
    LET read == DependencyValue(dep)
    IN  IF read.thrown # NoError
        THEN [ thrown |-> read.thrown, ret |-> FALSE ]
        ELSE [ thrown |-> NoError, ret |-> read.ret # Unset ]

\* ValueDependency.set(value, provider): a new instance, through clone(): the
\* name and (for a nullish value) the value of this one, and the provider
\* assigned through the setter.
DependencySet(dep, value, provider) ==
    DependencyProviderSet(
        [ dep EXCEPT !.value = Coalesce(value, dep.value), !.provider = NoProvider ],
        provider).dep

\* Mutant: invalidate() forgets the provider as well.
DependencyInvalidateForgets(dep) ==
    [ dep EXCEPT !.value = Unset, !.provider = NoProvider ]

\* ValueDependency.invalidate(): the value is cleared (and the error thrown).
DependencyInvalidate(dep) == [ dep EXCEPT !.value = Unset ]

\* No call on a ValueDependency yet.  on is the instance called, before what
\* it was before the call, value and provider the arguments, thrown the
\* error raised, ret the instance returned or carried by the error, read the
\* value read and ready the answer of ready.
NoCall ==
    [ op |-> "none", on |-> 0, before |-> DependencyNew("", Unset),
      value |-> Unset, provider |-> NoProvider, thrown |-> NoError,
      ret |-> 0, read |-> Unset, ready |-> FALSE ]

\* ------------------------------------------------------------------ Provide

\* new Provide({provider, ...provideConfig}): nothing chosen, nothing updated,
\* the context the state was registered with.
ProvideNew(config) ==
    [ repeat |-> FALSE, next |-> FALSE, prev |-> FALSE, nextStateName |-> "",
      updateMap |-> EmptyMap, newTimers |-> <<>>, staleTimers |-> <<>>,
      context |-> config.context ]

\* Mutant: no id counts as written.
ProvideHasNothing(p, id) == FALSE

\* Provide.has(id)
ProvideHas(p, id) == id \in DOMAIN p.updateMap

\* The check Provide.dependency makes before it writes: CriticalError for an
\* id the chain has written.
ProvideDependencyThrows(p, id) ==
    IF ProvideHas(p, id) THEN CriticalError ELSE NoError

\* Provide.dependency(dependency, newValue), for an id not written yet:
\* updateMap[id] = dependency.set(newValue, provider).
ProvideDependency(p, id, dep, value, provider) ==
    [ p EXCEPT !.updateMap =
        [ d \in (DOMAIN p.updateMap) \cup {id} |->
            IF d = id THEN DependencySet(dep, value, provider)
            ELSE p.updateMap[d] ] ]

\* Provide.tryAgain(), next(), previous(), transition(name)
ProvideTryAgain(p) == [ p EXCEPT !.repeat = TRUE ]
ProvideNext(p) == [ p EXCEPT !.next = TRUE ]
ProvidePrevious(p) == [ p EXCEPT !.prev = TRUE ]
ProvideTransition(p, name) == [ p EXCEPT !.nextStateName = name ]

\* Provide.createTimer(name, timeout), clearTimer(name), updateContext(data)
ProvideCreateTimer(p, name, timeoutMs) ==
    [ p EXCEPT !.newTimers = Append(@, [name |-> name, timeout |-> timeoutMs]) ]
ProvideClearTimer(p, name) == [ p EXCEPT !.staleTimers = Append(@, name) ]
ProvideUpdateContext(p, data) == [ p EXCEPT !.context = Merge(@, data) ]

\* doesRepeat(), doesGoNext(), doesGoPrevious(), doesTransition()
DoesRepeat(p) == p.repeat
DoesGoNext(p) == p.next
DoesGoPrevious(p) == p.prev
DoesTransition(p) == p.nextStateName # ""

\* The terminal verbs a state function applies to its Provide: none, or one.
Verbs == {"none", "tryAgain", "next", "previous"} \cup
         { StateNames[k] : k \in 1..Len(StateNames) } \cup {UnknownName}

ApplyVerb(p, verb) ==
    CASE verb = "none" -> p
      [] verb = "tryAgain" -> ProvideTryAgain(p)
      [] verb = "next" -> ProvideNext(p)
      [] verb = "previous" -> ProvidePrevious(p)
      [] OTHER -> ProvideTransition(p, verb)

\* provide.dependency(dependencies[d], v) for every d of ds (distinct ids).
RECURSIVE ProvideAll(_, _, _, _)
ProvideAll(p, ds, value, provider) ==
    IF ds = {} THEN p
    ELSE LET d == CHOOSE x \in ds : TRUE
         IN  ProvideAll(ProvideDependency(p, d, dependencies[d], value, provider),
                        ds \ {d}, value, provider)

\* What the state function of the state at index k can come to: a Provide it
\* built and returned, no result at all, or an error it threw.  A tagged
\* stale error carries the dependency it invalidated.
Returned(p) == [ NoOutcome EXCEPT !.kind = "provide", !.p = p ]
ReturnedUndefined == [ NoOutcome EXCEPT !.kind = "undefined" ]
Threw(e) == [ NoOutcome EXCEPT !.kind = "throw", !.err = e ]
ThrewStale(d) ==
    [ NoOutcome EXCEPT !.kind = "throw", !.err = StaleDependencyReferenceError,
                       !.dep = d, !.provider = dependencies[d].provider ]

\* The state function calls provide.dependency for d, and for d again, and
\* selects a verb: what it comes to, with the id it wrote again (rewrote).
WritesTwice(k, d, value, verb) ==
    LET first == ProvideDependency(ProvideNew(states[k + 1].provideConfig),
                                   d, dependencies[d], value, k)
        thrown == ProvideDependencyThrows(first, d)
    IN  IF thrown # NoError
        THEN [ Threw(thrown) EXCEPT !.rewrote = d ]
        ELSE [ Returned(ApplyVerb(
                   ProvideDependency(first, d, dependencies[d], value, k), verb))
               EXCEPT !.rewrote = d ]

CoreOutcomes(k) ==
    { Returned(ApplyVerb(ProvideAll(ProvideNew(states[k + 1].provideConfig),
                                    ds, v, k), verb)) :
        ds \in SUBSET DepIds, v \in Values, verb \in Verbs }
    \cup {ReturnedUndefined}
    \cup { Threw(e) : e \in ThrownErrors \ {StaleDependencyReferenceError} }
    \cup { ThrewStale(d) : d \in DepIds }
    \cup { WritesTwice(k, d, v, verb) : d \in DepIds, v \in Values, verb \in Verbs }


\* A boolean as the probe keeps it.
Answer(b) == IF b THEN "true" ELSE "false"

\* Mutant: a name without a timer has not elapsed.
MachineHasElapsedTimerLenient(tm, name, budget) ==
    IF name \in DOMAIN tm
    THEN [ thrown |-> NoError, ret |-> Answer(TimerElapsed(tm[name], budget)) ]
    ELSE [ thrown |-> NoError, ret |-> "false" ]

\* StateMachine.hasElapsedTimer(name) with the timers tm and the budget left:
\* the timer's answer for that budget, CriticalError for a name without one.
MachineHasElapsedTimer(tm, name, budget) ==
    IF name \in DOMAIN tm
    THEN [ thrown |-> NoError, ret |-> Answer(TimerElapsed(tm[name], budget)) ]
    ELSE [ thrown |-> CriticalError, ret |-> "none" ]

\* Provide.hasElapsedTimer(name): this.config.timers[name]?.elapsed(
\* this.config.timeout), the timers the machine's and the timeout the one in
\* the Provide's config; undefined for a name without a timer.
ProvideHasElapsedTimer(config, tm, name) ==
    IF name \in DOMAIN tm
    THEN Answer(TimerElapsed(tm[name], config.timeout))
    ELSE "undefined"

\* ------------------------------------------------------------- the machine

\* The machine's fields as the loop's continuation changes them, with what
\* the continuation threw (thrown) and what notify() did (fired, saw).
Machine ==
    [ i |-> i, stateCounter |-> stateCounter, timeOnState |-> timeOnState,
      timeout |-> timeout, reachedStates |-> reachedStates,
      dependencies |-> dependencies, timers |-> timers,
      userContext |-> userContext, thrown |-> NoError, fired |-> 0, saw |-> {} ]

\* What a listener of the given kind throws synchronously when called.
ListenerThrows(kind) ==
    CASE kind = "throwBenign" -> NoSuchElementError
      [] kind = "throwFatal" -> OtherError
      [] OTHER -> NoError

\* notify(): Promise.all(callbacks.map((x) => x(this, logger))), not awaited.
\* map calls the listeners in order and stops at the first that throws.
\* does[k] is what the k-th listener does in this call.
Notify(m, does) ==
    LET bad == { k \in DOMAIN does : ListenerThrows(does[k]) # NoError }
        first == IF bad = {} THEN 0 ELSE CHOOSE k \in bad : \A b \in bad : k <= b
    IN  [ m EXCEPT !.fired = IF first = 0 THEN Len(does) ELSE first,
                   !.saw = m.reachedStates,
                   !.thrown = IF first = 0 THEN NoError
                              ELSE ListenerThrows(does[first]) ]

\* Mutant: the transition keeps elapsed-on-state and the iteration counter.
ChangeIndexKeepsCounters(m, target, does) ==
    IF m.i = target THEN m
    ELSE IF target < 0 THEN [ m EXCEPT !.thrown = CriticalError ]
    ELSE Notify([ m EXCEPT !.i = target,
                           !.reachedStates = @ \cup {NameAt(target)} ], does)

\* Mutant: the listeners are called before the reached-set is updated.
ChangeIndexNotifiesFirst(m, target, does) ==
    IF m.i = target THEN m
    ELSE IF target < 0 THEN [ m EXCEPT !.thrown = CriticalError ]
    ELSE [ Notify(m, does) EXCEPT !.i = target,
                                  !.timeOnState = 0,
                                  !.stateCounter = 0,
                                  !.reachedStates = @ \cup {NameAt(target)} ]

\* Mutant: a transition below the first state is ignored.
ChangeIndexClampsNegative(m, target, does) ==
    IF m.i = target \/ target < 0 THEN m
    ELSE Notify([ m EXCEPT !.i = target,
                           !.timeOnState = 0,
                           !.stateCounter = 0,
                           !.reachedStates = @ \cup {NameAt(target)} ], does)

\* Mutant: a transition to the current state is made like any other.
ChangeIndexAlways(m, target, does) ==
    IF target < 0 THEN [ m EXCEPT !.thrown = CriticalError ]
    ELSE Notify([ m EXCEPT !.i = target,
                           !.timeOnState = 0,
                           !.stateCounter = 0,
                           !.reachedStates = @ \cup {NameAt(target)} ], does)

\* changeIndex(target)
ChangeIndex(m, target, does) ==
    IF m.i = target THEN m
    ELSE IF target < 0 THEN [ m EXCEPT !.thrown = CriticalError ]
    ELSE Notify([ m EXCEPT !.i = target,
                           !.timeOnState = 0,
                           !.stateCounter = 0,
                           !.reachedStates = @ \cup {NameAt(target)} ], does)

\* clearTimer(name) for every name of the sequence.
RECURSIVE ClearTimers(_, _)
ClearTimers(tm, names) ==
    IF names = <<>> THEN tm
    ELSE ClearTimers([ k \in (DOMAIN tm) \ {Head(names)} |-> tm[k] ], Tail(names))

\* createTimer(name, timeout) for every entry of the sequence, at the budget
\* the machine has left.
RECURSIVE CreateTimers(_, _, _)
CreateTimers(tm, entries, budget) ==
    IF entries = <<>> THEN tm
    ELSE CreateTimers(
            Merge(tm, [ k \in {Head(entries).name} |->
                          TimerDeadline(budget, Head(entries).timeout) ]),
            Tail(entries), budget)

\* The accounting of a successful execution: lines 342-345.
AccountSuccess(m, delta) ==
    [ m EXCEPT !.timeOnState = @ + delta,
               !.stateCounter = @ + 1,
               !.timeout = @ - delta ]

\* Mutant: a failed execution counts on the state as well.
AccountFailureOnState(m, delta) ==
    [ m EXCEPT !.timeout = @ - delta, !.timeOnState = @ + delta,
               !.stateCounter = @ + 1 ]

\* Mutant: a failed execution the loop goes on after costs nothing.
AccountFailureFree(m, delta) == m

\* The accounting of a failed execution the loop goes on after: lines 419-420.
AccountFailure(m, delta) == [ m EXCEPT !.timeout = @ - delta ]

\* Lines 347-360: the Provide's updates, timers and context reach the machine.
ApplyProvide(m, p) ==
    [ m EXCEPT !.dependencies = Merge(@, p.updateMap),
               !.timers = CreateTimers(ClearTimers(@, p.staleTimers),
                                       p.newTimers, m.timeout),
               !.userContext = Merge(@, p.context) ]

\* Mutant: a repeat starts the time on the state again.
DispatchRepeatResets(m, p, does) ==
    IF DoesRepeat(p) THEN [ m EXCEPT !.timeOnState = 0 ]
    ELSE IF DoesGoNext(p) THEN ChangeIndex(m, m.i + 1, does)
    ELSE IF DoesGoPrevious(p) THEN ChangeIndex(m, m.i - 1, does)
    ELSE IF DoesTransition(p) THEN
        IF NameMapGet(p.nextStateName) = -1
        THEN [ m EXCEPT !.thrown = CriticalError ]
        ELSE ChangeIndex(m, NameMapGet(p.nextStateName), does)
    ELSE [ m EXCEPT !.thrown = CriticalError ]

\* Mutant: a Provide without a decision is a repeat.
DispatchNoneRepeats(m, p, does) ==
    IF DoesRepeat(p) THEN m
    ELSE IF DoesGoNext(p) THEN ChangeIndex(m, m.i + 1, does)
    ELSE IF DoesGoPrevious(p) THEN ChangeIndex(m, m.i - 1, does)
    ELSE IF DoesTransition(p) THEN
        IF NameMapGet(p.nextStateName) = -1
        THEN [ m EXCEPT !.thrown = CriticalError ]
        ELSE ChangeIndex(m, NameMapGet(p.nextStateName), does)
    ELSE m

\* Mutant: next() goes two states on.
DispatchNextSkips(m, p, does) ==
    IF DoesRepeat(p) THEN m
    ELSE IF DoesGoNext(p) THEN ChangeIndex(m, m.i + 2, does)
    ELSE IF DoesGoPrevious(p) THEN ChangeIndex(m, m.i - 1, does)
    ELSE IF DoesTransition(p) THEN
        IF NameMapGet(p.nextStateName) = -1
        THEN [ m EXCEPT !.thrown = CriticalError ]
        ELSE ChangeIndex(m, NameMapGet(p.nextStateName), does)
    ELSE [ m EXCEPT !.thrown = CriticalError ]

\* Mutant: the verb recorded weakest wins: transition over previous over
\* next over repeat.
DispatchWeakestFirst(m, p, does) ==
    IF DoesTransition(p) THEN
        IF NameMapGet(p.nextStateName) = -1
        THEN [ m EXCEPT !.thrown = CriticalError ]
        ELSE ChangeIndex(m, NameMapGet(p.nextStateName), does)
    ELSE IF DoesGoPrevious(p) THEN ChangeIndex(m, m.i - 1, does)
    ELSE IF DoesGoNext(p) THEN ChangeIndex(m, m.i + 1, does)
    ELSE IF DoesRepeat(p) THEN m
    ELSE [ m EXCEPT !.thrown = CriticalError ]

\* Lines 362-382: the transition the Provide chose.
Dispatch(m, p, does) ==
    IF DoesRepeat(p) THEN m
    ELSE IF DoesGoNext(p) THEN ChangeIndex(m, m.i + 1, does)
    ELSE IF DoesGoPrevious(p) THEN ChangeIndex(m, m.i - 1, does)
    ELSE IF DoesTransition(p) THEN
        IF NameMapGet(p.nextStateName) = -1
        THEN [ m EXCEPT !.thrown = CriticalError ]
        ELSE ChangeIndex(m, NameMapGet(p.nextStateName), does)
    ELSE [ m EXCEPT !.thrown = CriticalError ]

\* The try block after the state function returned p: lines 342-382.
TryBlock(m, p, delta, does) ==
    Dispatch(ApplyProvide(AccountSuccess(m, delta), p), p, does)

\* Mutant: an intercepted click is not benign.
IsBenignNoClick(e) == InstanceOf(e, NoSuchElementError)

\* Mutant: the loop goes on after any error.
IsAnyError(e) == TRUE

\* The errors the catch block goes on after without a jump: lines 405-411.
IsBenign(e) ==
    \/ InstanceOf(e, NoSuchElementError)
    \/ InstanceOf(e, ElementClickInterceptedError)
IsUnprotectedStale(e) == InstanceOf(e, StaleElementReferenceError)

\* e.dependency.provider of line 397: the getter of ValueDependency throws
\* CriticalError for a dependency without a provider.
ProviderOf(provider) ==
    IF provider = NoProvider
    THEN [ thrown |-> CriticalError, index |-> NoProvider ]
    ELSE [ thrown |-> NoError, index |-> provider ]

\* Mutant: a stale dependency sends the machine one state on.
CatchBlockJumpsForward(m, e, provider, delta, does) ==
    IF InstanceOf(e, StaleDependencyReferenceError) THEN
        LET prov == ProviderOf(provider)
            jumped == ChangeIndex(m, m.i + 1, does)
        IN  IF prov.thrown # NoError
            THEN [ m |-> m, fatal |-> prov.thrown ]
            ELSE IF jumped.thrown # NoError
            THEN [ m |-> jumped, fatal |-> jumped.thrown ]
            ELSE [ m |-> AccountFailure(jumped, delta), fatal |-> NoError ]
    ELSE IF IsBenign(e) \/ IsUnprotectedStale(e) THEN
        [ m |-> AccountFailure(m, delta), fatal |-> NoError ]
    ELSE [ m |-> m, fatal |-> e ]

\* The catch block, lines 384-421, for error e thrown with the machine at m.
\* fatal is the error that leaves helperStart, NoError when the loop goes on.
CatchBlock(m, e, provider, delta, does) ==
    IF InstanceOf(e, StaleDependencyReferenceError) THEN
        LET prov == ProviderOf(provider)
            jumped == ChangeIndex(m, prov.index, does)
        IN  IF prov.thrown # NoError
            THEN [ m |-> m, fatal |-> prov.thrown ]
            ELSE IF jumped.thrown # NoError
            THEN [ m |-> jumped, fatal |-> jumped.thrown ]
            ELSE [ m |-> AccountFailure(jumped, delta), fatal |-> NoError ]
    ELSE IF IsBenign(e) \/ IsUnprotectedStale(e) THEN
        [ m |-> AccountFailure(m, delta), fatal |-> NoError ]
    ELSE [ m |-> m, fatal |-> e ]

\* One continuation of the loop, for the outcome o of the state function:
\* the try block, and the catch block for what the state function or the try
\* block threw.  late is the delta the catch block measures, does is what
\* each listener does when it is called.
Continuation(o, late, does) ==
    IF o.kind = "provide" THEN
        LET tried == TryBlock(Machine, o.p, o.delta, does)
        IN  IF tried.thrown = NoError
            THEN [ m |-> tried, fatal |-> NoError ]
            ELSE CatchBlock([ tried EXCEPT !.thrown = NoError ], tried.thrown,
                            NoProvider, late, does)
    ELSE IF o.kind = "undefined" THEN
        \* State.execute: the function yielded no result.
        CatchBlock(Machine, CriticalError, NoProvider, late, does)
    ELSE CatchBlock(Machine, o.err, o.provider, late, does)

\* The terminal verbs recorded on a Provide: its flags and its target name.
Recorded(p) ==
    { v \in {"repeat", "next", "previous", "transition"} :
        \/ v = "repeat" /\ DoesRepeat(p)
        \/ v = "next" /\ DoesGoNext(p)
        \/ v = "previous" /\ DoesGoPrevious(p)
        \/ v = "transition" /\ DoesTransition(p) }

\* The decision the driver reads from a Provide, in the order of lines 362-382.
Decision(p) ==
    IF DoesRepeat(p) THEN "repeat"
    ELSE IF DoesGoNext(p) THEN "next"
    ELSE IF DoesGoPrevious(p) THEN "previous"
    ELSE IF DoesTransition(p) THEN "transition"
    ELSE "none"

\* The index the decision of p leads to from index k (-1: there is none).
TargetOf(p, k) ==
    CASE Decision(p) = "repeat" -> k
      [] Decision(p) = "next" -> k + 1
      [] Decision(p) = "previous" -> k - 1
      [] Decision(p) = "transition" -> NameMapGet(p.nextStateName)
      [] OTHER -> -1

\* The error a state function's outcome raises in the loop's try block.
RaisedBy(o) ==
    CASE o.kind = "throw" -> o.err
      [] o.kind = "undefined" -> CriticalError
      [] OTHER -> NoError

\* What the continuation did, for the history: for a state function that
\* failed the branch of the catch block, else the committed decision; from is
\* the state that was executed.
LastOf(o, r) ==
    [ kind |-> IF RaisedBy(o) = NoError THEN Decision(o.p)
               ELSE IF r.fatal # NoError THEN "fatal"
               ELSE IF InstanceOf(o.err, StaleDependencyReferenceError)
                    THEN "stale" ELSE "retry",
      from |-> i,
      err |-> IF r.fatal # NoError THEN r.fatal ELSE RaisedBy(o),
      provider |-> o.provider,
      rewrote |-> o.rewrote,
      said |-> IF o.kind = "provide" THEN Recorded(o.p) ELSE {} ]

\* ------------------------------------------------------------------ actions

\* Mutant: a new state goes in front of the states added before.
AddStatePrepends(stateTimeouts) ==
    /\ pc = "idle"
    /\ Len(states) < Len(StateNames)
    /\ \E t \in stateTimeouts :
         states' = << [ name |-> StateNames[Len(states) + 1],
                        index |-> Len(states),
                        timeout |-> t,
                        provideConfig |-> [ context |-> userContext,
                                            timeout |-> timeout ] ] >> \o states
    /\ UNCHANGED <<transitionCallbacks, machineVars, loopVars, histVars, depVars, apiVars>>

\* state(f, timeout) / namedState(name, f, timeout): the state is appended,
\* with the number of states before it as its index and the context and the
\* budget of this moment as its Provide's data.
AddState(stateTimeouts) ==
    /\ pc = "idle"
    /\ Len(states) < Len(StateNames)
    /\ \E t \in stateTimeouts :
         states' = Append(states,
            [ name |-> StateNames[Len(states) + 1],
              index |-> Len(states),
              timeout |-> t,
              provideConfig |-> [ context |-> userContext, timeout |-> timeout ] ])
    /\ UNCHANGED <<transitionCallbacks, machineVars, loopVars, histVars, depVars, apiVars>>

\* onTransition(callback), on a machine with fewer than most listeners.
OnTransition(most) ==
    /\ pc = "idle"
    /\ Len(transitionCallbacks) < most
    /\ transitionCallbacks' = Append(transitionCallbacks, "listener")
    /\ UNCHANGED <<states, machineVars, loopVars, histVars, depVars, apiVars>>

\* Mutant: start() does not add the entry state to the reached-set.
StartForgetsEntry ==
    /\ pc = "idle"
    /\ ~running
    /\ running' = TRUE
    /\ promise' = "pending"
    /\ pc' = "top"
    /\ UNCHANGED <<configVars, dependencies, userContext, timeout, timers, i,
                   stateCounter, timeOnState, reachedStates, inflight, histVars,
                   depVars, apiVars>>

\* start() on a machine that was not started: helperStart sets the running
\* flag and enters the loop; start() adds the current state's name to the
\* reached-set (after the first iteration's synchronous part, which neither
\* reads nor writes the set).
Start ==
    /\ pc = "idle"
    /\ ~running
    /\ running' = TRUE
    /\ reachedStates' = reachedStates \cup {currentState}
    /\ promise' = "pending"
    /\ pc' = "top"
    /\ UNCHANGED <<configVars, dependencies, userContext, timeout, timers, i,
                   stateCounter, timeOnState, inflight, histVars, depVars, apiVars>>

\* stop(), called while no continuation of the loop runs.
Stop ==
    /\ pc \in {"idle", "exec"}
    /\ running
    /\ running' = FALSE
    /\ UNCHANGED <<configVars, dependencies, userContext, timeout, timers, i,
                   stateCounter, timeOnState, reachedStates, loopVars, histVars,
                   depVars, apiVars>>

\* Mutant: a stopped machine resolves whatever budget is left.
LoopExitStopWins ==
    IF ~running THEN "resolved"
    ELSE IF i # NumStates THEN TimeoutError
    ELSE "resolved"

\* Mutant: helperStart returns however the loop was left.
LoopExitAlwaysResolves == "resolved"

\* Mutant: a loop left without budget has timed out, wherever the machine is.
LoopExitTimesOutAtEnd ==
    IF ~running /\ timeout > 0 THEN "resolved" ELSE TimeoutError

\* How helperStart settles when the loop is left: lines 424-434.
LoopExit ==
    IF ~running /\ timeout > 0 THEN "resolved"
    ELSE IF i # NumStates THEN TimeoutError
    ELSE "resolved"

\* Mutant: the loop's guard does not look at the running flag.
LoopTopIgnoresStop(keepLog) ==
    /\ pc = "top"
    /\ IF timeout > 0 THEN
          IF i >= NumStates THEN
              /\ pc' = "done" /\ promise' = "resolved" /\ execLog' = execLog
          ELSE IF StateTimedOut(states[i + 1].timeout, timeOnState) THEN
              /\ pc' = "done" /\ promise' = TimeoutError /\ execLog' = execLog
          ELSE
              /\ pc' = "exec" /\ promise' = promise
              /\ execLog' = IF keepLog THEN Append(execLog, currentState)
                            ELSE execLog
       ELSE
          /\ pc' = "done" /\ promise' = LoopExit /\ execLog' = execLog
    /\ UNCHANGED <<configVars, machineVars, inflight, last, notified, depVars, apiVars>>

\* The top of an iteration, lines 327-341: the loop's guard, the end state,
\* the state's own timeout, and the call of the state function.
LoopTop(keepLog) ==
    /\ pc = "top"
    /\ IF running /\ timeout > 0 THEN
          IF i >= NumStates THEN
              /\ pc' = "done" /\ promise' = "resolved" /\ execLog' = execLog
          ELSE IF StateTimedOut(states[i + 1].timeout, timeOnState) THEN
              /\ pc' = "done" /\ promise' = TimeoutError /\ execLog' = execLog
          ELSE
              /\ pc' = "exec" /\ promise' = promise
              /\ execLog' = IF keepLog THEN Append(execLog, currentState)
                            ELSE execLog
       ELSE
          /\ pc' = "done" /\ promise' = LoopExit /\ execLog' = execLog
    /\ UNCHANGED <<configVars, machineVars, inflight, last, notified, depVars, apiVars>>

\* The state function asks to stay on its state.
Stays(o) ==
    /\ o.kind = "provide"
    /\ \/ DoesRepeat(o.p)
       \/ ~DoesGoNext(o.p) /\ ~DoesGoPrevious(o.p)
          /\ NameMapGet(o.p.nextStateName) = i

\* The state function in flight settles: it returns or throws (a tagged stale
\* error after invalidate() cleared the dependency's value), delta after it
\* was called.
FnSettle(outcomes, deltas) ==
    /\ pc = "exec"
    /\ \E o \in outcomes, delta \in deltas :
         /\ Stays(o) => stateCounter < MaxCounter
         /\ inflight' = [ o EXCEPT !.delta = delta ]
         /\ dependencies' =
              IF o.kind = "throw" /\ o.err = StaleDependencyReferenceError
              THEN [ dependencies EXCEPT
                       ![o.dep] = DependencyInvalidate(dependencies[o.dep]) ]
              ELSE dependencies
    /\ pc' = "settled"
    /\ last' = NoLast
    /\ notified' = NoNotify
    /\ UNCHANGED <<configVars, userContext, timeout, timers, i, stateCounter,
                   timeOnState, reachedStates, running, promise, execLog, depVars, apiVars>>

\* The state function in flight settles, as in FnSettle, however often it
\* has asked to stay on its state.
FnSettleFreely(outcomes, deltas) ==
    /\ pc = "exec"
    /\ \E o \in outcomes, delta \in deltas :
         /\ inflight' = [ o EXCEPT !.delta = delta ]
         /\ dependencies' =
              IF o.kind = "throw" /\ o.err = StaleDependencyReferenceError
              THEN [ dependencies EXCEPT
                       ![o.dep] = DependencyInvalidate(dependencies[o.dep]) ]
              ELSE dependencies
    /\ pc' = "settled"
    /\ last' = NoLast
    /\ notified' = NoNotify
    /\ UNCHANGED <<configVars, userContext, timeout, timers, i, stateCounter,
                   timeOnState, reachedStates, running, promise, execLog, depVars, apiVars>>

\* The loop's continuation after the state function settled: the rest of the
\* try block or the catch block, up to the next iteration or the rejection.
\* The readings of the clock the catch block can take: the measured delta of
\* a state function that threw, that or a later one after a try block that
\* had already measured it.
LateDeltas(o) ==
    IF o.kind = "provide" THEN o.delta..Max(o.delta, MaxDelta) ELSE {o.delta}

\* What the listeners can do in the continuation for o: each anything of
\* kinds, when the continuation calls them at all.
AllOk == [ k \in DOMAIN transitionCallbacks |-> "ok" ]
ListenerDoings(o, kinds) ==
    IF Continuation(o, o.delta, AllOk).m.fired = 0 THEN {AllOk}
    ELSE [ DOMAIN transitionCallbacks -> kinds ]

Handle(kinds) ==
    /\ pc = "settled"
    /\ \E late \in LateDeltas(inflight),
          does \in ListenerDoings(inflight, kinds) :
         \E r \in {Continuation(inflight, late, does)} :
             /\ i' = r.m.i
             /\ stateCounter' = r.m.stateCounter
             /\ timeOnState' = r.m.timeOnState
             /\ timeout' = r.m.timeout
             /\ reachedStates' = r.m.reachedStates
             /\ dependencies' = r.m.dependencies
             /\ timers' = r.m.timers
             /\ userContext' = r.m.userContext
             /\ notified' = [ fired |-> r.m.fired, saw |-> r.m.saw ]
             /\ last' = LastOf(inflight, r)
             /\ pc' = IF r.fatal # NoError THEN "done" ELSE "top"
             /\ promise' = IF r.fatal # NoError THEN r.fatal ELSE promise
    /\ inflight' = NoOutcome
    /\ UNCHANGED <<configVars, running, execLog, depVars, apiVars>>

\* ------------------------------------- calls of the user's code on members

\* The user's code outside the state functions runs between the loop's
\* continuations: before the run, while a state function is awaited, after
\* the run.
Outside == pc \in {"idle", "exec", "done"}

\* machine.timeout = v: CriticalError while _running is set, else the budget
\* is v.
SetTimeout(values) ==
    /\ Outside
    /\ \E v \in values :
         IF running
         THEN /\ probe' = [ NoProbe EXCEPT !.op = "timeout=", !.arg = v,
                                           !.thrown = CriticalError ]
              /\ timeout' = timeout
         ELSE /\ probe' = [ NoProbe EXCEPT !.op = "timeout=", !.arg = v ]
              /\ timeout' = v
    /\ UNCHANGED <<configVars, dependencies, userContext, timers, i, stateCounter,
                   timeOnState, reachedStates, running, promise, loopVars,
                   histVars, depVars, waiter, loop2Vars>>

\* machine.createTimer(name, timeoutMs)
CreateTimer(names, timeouts) ==
    /\ Outside
    /\ \E n \in names, t \in timeouts :
         /\ timers' = Merge(timers, [ k \in {n} |-> TimerDeadline(timeout, t) ])
         /\ probe' = [ NoProbe EXCEPT !.op = "createTimer", !.name = n, !.arg = t ]
    /\ UNCHANGED <<configVars, dependencies, userContext, timeout, i, stateCounter,
                   timeOnState, reachedStates, running, promise, loopVars,
                   histVars, depVars, waiter, loop2Vars>>

\* machine.hasElapsedTimer(name)
HasElapsedTimer(names) ==
    /\ Outside
    /\ \E n \in names :
         \E r \in {MachineHasElapsedTimer(timers, n, timeout)} :
             probe' = [ NoProbe EXCEPT !.op = "hasElapsedTimer", !.name = n,
                                       !.thrown = r.thrown, !.ret = r.ret ]
    /\ UNCHANGED <<configVars, machineVars, loopVars, histVars, depVars, waiter,
                   loop2Vars>>

\* The state function in flight calls provide.hasElapsedTimer(name) on the
\* Provide it was given.
FnHasElapsedTimer(names) ==
    /\ pc = "exec"
    /\ \E n \in names :
         probe' = [ NoProbe EXCEPT
                      !.op = "provide.hasElapsedTimer", !.name = n,
                      !.ret = ProvideHasElapsedTimer(states[i + 1].provideConfig,
                                                     timers, n) ]
    /\ UNCHANGED <<configVars, machineVars, loopVars, histVars, depVars, waiter,
                   loop2Vars>>

\* machine.updateContext(data)
UpdateContext(patches) ==
    /\ Outside
    /\ \E data \in patches :
         /\ userContext' = Merge(userContext, data)
         /\ probe' = [ NoProbe EXCEPT !.op = "updateContext" ]
    /\ UNCHANGED <<configVars, dependencies, timeout, timers, i, stateCounter,
                   timeOnState, reachedStates, running, promise, loopVars,
                   histVars, depVars, waiter, loop2Vars>>

\* Mutant: the wait goes on until its time is up, reached or not.
WaitGoesOnUnlessLate(reached, name, left) ==
    left = Infinity \/ left > 0

\* !this._reachedStates.has(stringName) && Date.now() < end
WaitGoesOn(reached, name, left) ==
    /\ name \notin reached
    /\ left = Infinity \/ left > 0

\* waitUntilReached(name, timeout), up to the first await or the return:
\* end is now + timeout, and the loop's test is made once.
WaitUntilReached(names, timeouts) ==
    /\ Outside
    /\ waiter.pc = "none"
    /\ \E n \in names, t \in timeouts :
         waiter' = [ pc |-> IF WaitGoesOn(reachedStates, n, t)
                            THEN "polling" ELSE "returned",
                     name |-> n, timeout |-> t, left |-> t ]
    /\ UNCHANGED <<configVars, machineVars, loopVars, histVars, depVars, probe,
                   loop2Vars>>

\* Date.now() advances while the call polls.
WaitTick ==
    /\ waiter.pc = "polling"
    /\ waiter.left # Infinity
    /\ waiter.left > 0
    /\ waiter' = [ waiter EXCEPT !.left = @ - 1 ]
    /\ UNCHANGED <<configVars, machineVars, loopVars, histVars, depVars, probe,
                   loop2Vars>>

\* The callback of setImmediate resumes the call: the loop's test again.
WaitPoll ==
    /\ Outside
    /\ waiter.pc = "polling"
    /\ waiter' = [ waiter EXCEPT
                     !.pc = IF WaitGoesOn(reachedStates, waiter.name, waiter.left)
                            THEN "polling" ELSE "returned" ]
    /\ UNCHANGED <<configVars, machineVars, loopVars, histVars, depVars, probe,
                   loop2Vars>>

\* ------------------------------------------------ a further call of start()

\* helperStart from the loop's guard to the first await or the exit, with
\* the flag run: where it gets to and how its promise stands.
IterationTop(run) ==
    IF run /\ timeout > 0 THEN
        IF i >= NumStates THEN [ pc |-> "done", promise |-> "resolved" ]
        ELSE IF StateTimedOut(states[i + 1].timeout, timeOnState)
        THEN [ pc |-> "done", promise |-> TimeoutError ]
        ELSE [ pc |-> "exec", promise |-> "pending" ]
    ELSE IF ~run /\ timeout > 0 THEN [ pc |-> "done", promise |-> "resolved" ]
    ELSE IF i # NumStates THEN [ pc |-> "done", promise |-> TimeoutError ]
    ELSE [ pc |-> "done", promise |-> "resolved" ]

\* start() while the state function of an earlier start() is in flight:
\* helperStart throws CriticalError when _running is set; else it sets it
\* and runs on to its first await.  start() then adds the current state to
\* the reached-set.
StartAgain ==
    /\ pc = "exec"
    /\ pc2 = "idle"
    /\ IF running
       THEN /\ pc2' = "done"
            /\ promise2' = CriticalError
            /\ running' = running
       ELSE /\ running' = TRUE
            /\ pc2' = IterationTop(TRUE).pc
            /\ promise2' = IterationTop(TRUE).promise
    /\ reachedStates' = reachedStates \cup {currentState}
    /\ UNCHANGED <<configVars, dependencies, userContext, timeout, timers, i,
                   stateCounter, timeOnState, promise, loopVars, histVars,
                   depVars, probe, waiter, inflight2>>

\* The top of an iteration of the further loop.
LoopTop2 ==
    /\ pc2 = "top"
    /\ pc2' = IterationTop(running).pc
    /\ promise2' = IterationTop(running).promise
    /\ UNCHANGED <<configVars, machineVars, loopVars, histVars, depVars, probe,
                   waiter, inflight2>>

\* The state function the further loop awaits settles.
FnSettle2(outcomes, deltas) ==
    /\ pc2 = "exec"
    /\ \E o \in outcomes, delta \in deltas :
         /\ Stays(o) => stateCounter < MaxCounter
         /\ inflight2' = [ o EXCEPT !.delta = delta ]
    /\ pc2' = "settled"
    /\ UNCHANGED <<configVars, machineVars, loopVars, histVars, depVars, probe,
                   waiter, promise2>>

\* The further loop's continuation, on the machine as it is by then.
Handle2 ==
    /\ pc2 = "settled"
    /\ \E r \in {Continuation(inflight2, inflight2.delta, AllOk)} :
         /\ i' = r.m.i
         /\ stateCounter' = r.m.stateCounter
         /\ timeOnState' = r.m.timeOnState
         /\ timeout' = r.m.timeout
         /\ reachedStates' = r.m.reachedStates
         /\ dependencies' = r.m.dependencies
         /\ timers' = r.m.timers
         /\ userContext' = r.m.userContext
         /\ pc2' = IF r.fatal # NoError THEN "done" ELSE "top"
         /\ promise2' = IF r.fatal # NoError THEN r.fatal ELSE promise2
    /\ inflight2' = NoOutcome
    /\ UNCHANGED <<configVars, running, promise, loopVars, histVars, depVars,
                   probe, waiter>>

\* ------------------------------------------- calls on ValueDependency

\* The call op on the instance at address a.
CallOn(op, a) == [ NoCall EXCEPT !.op = op, !.on = a, !.before = heap[a] ]

\* new ValueDependency({name, value}), with a value or without.
DepNew ==
    /\ Len(heap) < MaxInstances
    /\ \E d \in DepIds, v \in DepValues \cup {Unset} :
         /\ heap' = Append(heap, DependencyNew(d, v))
         /\ depCall' = [ NoCall EXCEPT !.op = "new", !.on = Len(heap) + 1,
                                       !.value = v, !.ret = Len(heap) + 1 ]
    /\ UNCHANGED <<configVars, machineVars, loopVars, histVars, apiVars>>

\* dependency.provider = state
DepSetProvider ==
    /\ \E a \in DOMAIN heap, st \in 0..(Len(StateNames) - 1) :
         \E r \in {DependencyProviderSet(heap[a], st)} :
             /\ heap' = [ heap EXCEPT ![a] = r.dep ]
             /\ depCall' = [ CallOn("setProvider", a) EXCEPT
                               !.provider = st, !.thrown = r.thrown ]
    /\ UNCHANGED <<configVars, machineVars, loopVars, histVars, apiVars>>

\* dependency.set(value, state): the new instance gets the next address.
DepSet ==
    /\ Len(heap) < MaxInstances
    /\ \E a \in DOMAIN heap, v \in DepValues \cup {Unset, Null},
          st \in 0..(Len(StateNames) - 1) :
         /\ heap' = Append(heap, DependencySet(heap[a], v, st))
         /\ depCall' = [ CallOn("set", a) EXCEPT
                           !.value = v, !.provider = st, !.ret = Len(heap) + 1 ]
    /\ UNCHANGED <<configVars, machineVars, loopVars, histVars, apiVars>>

\* dependency.invalidate(): throw new StaleDependencyReferenceError(this)
DepInvalidate ==
    /\ \E a \in DOMAIN heap :
         /\ heap' = [ heap EXCEPT ![a] = DependencyInvalidate(heap[a]) ]
         /\ depCall' = [ CallOn("invalidate", a) EXCEPT
                           !.thrown = StaleDependencyReferenceError, !.ret = a ]
    /\ UNCHANGED <<configVars, machineVars, loopVars, histVars, apiVars>>

\* dependency.value
DepValue ==
    /\ \E a \in DOMAIN heap :
         \E r \in {DependencyValue(heap[a])} :
             depCall' = [ CallOn("value", a) EXCEPT
                            !.thrown = r.thrown, !.read = r.ret ]
    /\ UNCHANGED <<configVars, machineVars, loopVars, histVars, heap, apiVars>>

\* dependency.ready
DepReady ==
    /\ \E a \in DOMAIN heap :
         \E r \in {DependencyReady(heap[a])} :
             depCall' = [ CallOn("ready", a) EXCEPT
                            !.thrown = r.thrown, !.ready = r.ret ]
    /\ UNCHANGED <<configVars, machineVars, loopVars, histVars, heap, apiVars>>

\* ----------------------------------------------------------- specifications

InitWith(budgets) ==
    /\ states = <<>>
    /\ transitionCallbacks = <<>>
    /\ dependencies = [ d \in DepIds |-> [ value |-> Unset, provider |-> NoProvider ] ]
    /\ timeout \in budgets
    /\ userContext = [ k \in {"timeout"} |-> timeout ]
    /\ timers = EmptyMap
    /\ i = 0
    /\ stateCounter = 0
    /\ timeOnState = 0
    /\ reachedStates = {}
    /\ running = FALSE
    /\ promise = "none"
    /\ pc = "idle"
    /\ inflight = NoOutcome
    /\ last = NoLast
    /\ notified = NoNotify
    /\ execLog = <<>>
    /\ heap = <<>>
    /\ depCall = NoCall
    /\ probe = NoProbe
    /\ waiter = NoWaiter
    /\ pc2 = "idle"
    /\ inflight2 = NoOutcome
    /\ promise2 = "none"

\* The driver with every kind of state function and listener, states without
\* a timeout of their own.
Init == InitWith({MaxBudget})

Next ==
    \/ AddState({Infinity})
    \/ OnTransition(MaxListeners)
    \/ Start
    \/ Stop
    \/ LoopTop(FALSE)
    \/ FnSettle(CoreOutcomes(i), 0..MaxDelta)
    \/ Handle(ListenerKinds)

Spec == Init /\ [][Next]_vars

\* The recovery scenario: states [A, B]; A provides X and selects next; the
\* first execution of B fails with a stale-reference error on X, every later
\* one selects next.  No listener, no stop; any budget up to two more than
\* four executions can take.
ScenarioOutcomes(k) ==
    IF k = 0 THEN
        { Returned(ProvideNext(ProvideDependency(
            ProvideNew(states[k + 1].provideConfig), "X", dependencies["X"], 1, k))) }
    ELSE IF Len(SelectSeq(execLog, LAMBDA n : n = "B")) = 1 THEN
        { ThrewStale("X") }
    ELSE { Returned(ProvideNext(ProvideNew(states[k + 1].provideConfig))) }

InitScenario == InitWith(0..(4 * MaxDelta + 2))

NextScenario ==
    \/ Len(states) < 2 /\ AddState({Infinity})
    \/ Len(states) = 2 /\ Start
    \/ LoopTop(TRUE)
    \/ FnSettle(ScenarioOutcomes(i), 0..MaxDelta)
    \/ Handle({"ok"})

\* The event loop runs every continuation that is ready, and the scenario's
\* state functions settle.
SpecScenario ==
    InitScenario /\ [][NextScenario]_vars /\ WF_vars(NextScenario)

\* The driver with states that have a timeout of their own: state functions
\* that repeat, move on or back, or fail benignly, and take up to
\* MaxDelta + 1.
TimeoutOutcomes(k) ==
    { Returned(ApplyVerb(ProvideNew(states[k + 1].provideConfig), verb)) :
        verb \in {"tryAgain", "next", "previous"} }
    \cup { Threw(NoSuchElementError) }

InitTimeout == InitWith({MaxBudget + MaxDelta})

NextTimeout ==
    \/ AddState({Infinity} \cup 0..MaxStateTimeout)
    \/ Start
    \/ Stop
    \/ LoopTop(FALSE)
    \/ FnSettle(TimeoutOutcomes(i), 0..(MaxDelta + 1))
    \/ Handle({"ok"})

SpecTimeout == InitTimeout /\ [][NextTimeout]_vars

\* The driver with one listener more, and state functions that repeat, move
\* on, back or to a named state, fail benignly or invalidate a dependency.
ListenerOutcomes(k) ==
    { Returned(ApplyVerb(ProvideAll(ProvideNew(states[k + 1].provideConfig),
                                    ds, v, k), verb)) :
        ds \in SUBSET DepIds, v \in Values, verb \in Verbs \ {"none", UnknownName} }
    \cup { Threw(NoSuchElementError) }
    \cup { ThrewStale(d) : d \in DepIds }

InitListeners == InitWith({MaxBudget})

NextListeners ==
    \/ AddState({Infinity})
    \/ OnTransition(MaxListeners + 1)
    \/ Start
    \/ LoopTop(FALSE)
    \/ FnSettle(ListenerOutcomes(i), 0..MaxDelta)
    \/ Handle(ListenerKinds)

SpecListeners == InitListeners /\ [][NextListeners]_vars

\* ValueDependency on its own: instances are constructed, given a provider,
\* set, invalidated and read, in any order.
InitDependency == InitWith({MaxBudget})

NextDependency ==
    \/ DepNew
    \/ DepSetProvider
    \/ DepSet
    \/ DepInvalidate
    \/ DepValue
    \/ DepReady

SpecDependency == InitDependency /\ [][NextDependency]_vars


\* The names timers are kept under, and the context patches a state function
\* can make: none, one of a key the machine was constructed with, one of a
\* new key.
TimerNames == {"t"}
Patches ==
    { EmptyMap, [ k \in {"timeout"} |-> 0 ], [ k \in {"note"} |-> 1 ] }

\* The state function returns p, having patched the context with patch
\* (provide.updateContext(patch)) or not at all.
Patched(p, patch) ==
    [ Returned(IF patch = EmptyMap THEN p ELSE ProvideUpdateContext(p, patch))
      EXCEPT !.patch = patch ]

\* The driver with the members the user's code calls, on machines of one
\* state: state functions that repeat or move on, create or clear a
\* timer, or fail benignly.
ApiOutcomes(k) ==
    LET base == { ApplyVerb(ProvideNew(states[k + 1].provideConfig), verb) :
                    verb \in {"tryAgain", "next"} }
    IN  { Returned(p) : p \in base }
        \cup { Returned(ProvideCreateTimer(p, n, t)) :
                 p \in base, n \in TimerNames, t \in 0..MaxTimerTimeout }
        \cup { Returned(ProvideClearTimer(p, n)) : p \in base, n \in TimerNames }
        \cup { Threw(NoSuchElementError) }

InitApi == InitWith({MaxBudget})

NextApi ==
    \/ SetTimeout(0..MaxBudget)
    \/ Len(states) < 1 /\ AddState({Infinity})
    \/ Start
    \/ Stop
    \/ LoopTop(FALSE)
    \/ CreateTimer(TimerNames, 0..MaxTimerTimeout)
    \/ HasElapsedTimer(TimerNames)
    \/ FnHasElapsedTimer(TimerNames)
    \/ FnSettle(ApiOutcomes(i), 0..MaxDelta)
    \/ Handle({"ok"})

SpecApi == InitApi /\ [][NextApi]_vars

\* The driver with context patches, on machines of up to two states: state
\* functions that repeat or move on, with a patch or without one, and the
\* user's code patching the context itself.
ContextOutcomes(k) ==
    { Patched(ApplyVerb(ProvideNew(states[k + 1].provideConfig), verb), patch) :
        verb \in {"tryAgain", "next"}, patch \in Patches }

InitContext == InitWith({MaxBudget})

NextContext ==
    \/ Len(states) < 2 /\ AddState({Infinity})
    \/ UpdateContext(Patches \ {EmptyMap})
    \/ Start
    \/ LoopTop(FALSE)
    \/ FnSettle(ContextOutcomes(i), 0..MaxDelta)
    \/ Handle({"ok"})

SpecContext == InitContext /\ [][NextContext]_vars

\* The driver with a caller of waitUntilReached, on machines of up to two
\* states whose state functions repeat or move on.  The event loop runs the
\* loop's continuations and the callbacks of setImmediate, and the clock
\* advances; a state function need not settle.
WaitOutcomes(k) ==
    { Returned(ApplyVerb(ProvideNew(states[k + 1].provideConfig), verb)) :
        verb \in {"tryAgain", "next"} }

InitWait == InitWith({MaxBudget})

NextWait ==
    \/ Len(states) < 2 /\ AddState({Infinity})
    \/ Start
    \/ LoopTop(FALSE)
    \/ FnSettle(WaitOutcomes(i), 0..MaxDelta)
    \/ Handle({"ok"})
    \/ WaitUntilReached({"A", "B"}, {Infinity} \cup 0..MaxWait)
    \/ WaitTick
    \/ WaitPoll

SpecWait ==
    /\ InitWait
    /\ [][NextWait]_vars
    /\ WF_vars(LoopTop(FALSE))
    /\ WF_vars(Handle({"ok"}))
    /\ WF_vars(WaitTick)
    /\ WF_vars(WaitPoll)

\* The driver with a further start() during a run, on machines of up to two
\* states registered before anything else happened (so that every state
\* carries the same data for its Provide): state functions that repeat or
\* move on.
RestartOutcomes ==
    { Returned(ApplyVerb(ProvideNew(states[1].provideConfig), verb)) :
        verb \in {"tryAgain", "next"} }

InitRestart == InitWith({MaxBudget})

NextRestart ==
    \/ Len(states) < 2 /\ AddState({Infinity})
    \/ Start
    \/ Stop
    \/ LoopTop(FALSE)
    \/ FnSettle(RestartOutcomes, 0..MaxDelta)
    \/ Handle({"ok"})
    \/ StartAgain
    \/ LoopTop2
    \/ FnSettle2(RestartOutcomes, 0..MaxDelta)
    \/ Handle2

SpecRestart == InitRestart /\ [][NextRestart]_vars

\* The driver with attempts that fail and attempts that stay, on machines of
\* up to two states with or without a timeout of their own: state functions
\* that repeat, move on or name a state, providing X or nothing, fail
\* benignly, or invalidate X.
AttemptOutcomes(k) ==
    { Returned(ApplyVerb(ProvideAll(ProvideNew(states[k + 1].provideConfig),
                                    ds, v, k), verb)) :
        ds \in SUBSET DepIds, v \in Values, verb \in {"tryAgain", "next", "A", "B"} }
    \cup { Threw(NoSuchElementError) }
    \cup { ThrewStale(d) : d \in DepIds }

InitAttempts == InitWith({MaxBudget + MaxDelta})

NextAttempts ==
    \/ Len(states) < 2 /\ AddState({Infinity} \cup 0..MaxStateTimeout)
    \/ OnTransition(MaxListeners)
    \/ Start
    \/ LoopTop(FALSE)
    \/ FnSettle(AttemptOutcomes(i), 0..MaxDelta)
    \/ Handle({"ok"})

SpecAttempts == InitAttempts /\ [][NextAttempts]_vars

\* The verbs a state function records on one Provide: any of tryAgain(),
\* next(), previous() and one transition(name), each a method that sets its
\* field and returns the Provide.
RECURSIVE ApplyVerbs(_, _)
ApplyVerbs(p, verbs) ==
    IF verbs = {} THEN p
    ELSE LET v == CHOOSE x \in verbs : TRUE
         IN  ApplyVerbs(ApplyVerb(p, v), verbs \ {v})

VerbSets ==
    { vs \in SUBSET {"tryAgain", "next", "previous", "A", UnknownName} :
        Cardinality(vs \cap {"A", UnknownName}) <= 1 }

\* The driver with state functions that record any number of terminal verbs,
\* on machines of up to two states.
VerbOutcomes(k) ==
    { Returned(ApplyVerbs(ProvideNew(states[k + 1].provideConfig), vs)) :
        vs \in VerbSets }

InitVerbs == InitWith({MaxBudget})

NextVerbs ==
    \/ Len(states) < 2 /\ AddState({Infinity})
    \/ Start
    \/ LoopTop(FALSE)
    \/ FnSettle(VerbOutcomes(i), 0..MaxDelta)
    \/ Handle({"ok"})

SpecVerbs == InitVerbs /\ [][NextVerbs]_vars

\* The driver with state functions of every kind that settle after at least
\* one unit of time, however often they stay on their state, on machines of
\* up to two states constructed with any budget up to MaxBudget.  The event
\* loop runs the loop's continuations, and every state function settles.
InitTermination == InitWith(0..MaxBudget)

NextTermination ==
    \/ Len(states) < 2 /\ AddState({Infinity})
    \/ OnTransition(MaxListeners)
    \/ Start
    \/ Stop
    \/ LoopTop(FALSE)
    \/ FnSettleFreely(CoreOutcomes(i), 1..MaxDelta)
    \/ Handle(ListenerKinds)

SpecTermination ==
    /\ InitTermination
    /\ [][NextTermination]_vars
    /\ WF_vars(LoopTop(FALSE))
    /\ WF_vars(FnSettleFreely(CoreOutcomes(i), 1..MaxDelta))
    /\ WF_vars(Handle(ListenerKinds))

\* -------------------------------------------------------------------- claims

\* The continuation of the loop is about to handle a state function that
\* returned a Provide / that failed.
HandlesProvide == pc = "settled" /\ inflight.kind = "provide"
HandlesFailure == pc = "settled" /\ RaisedBy(inflight) # NoError

\* C1: after a stale-reference failure tagged with a dependency whose provider
\* is state S, raised by a state registered later than S, the state whose
\* function the driver has in hand next is S, with elapsed-on-state and the
\* iteration counter both zero.
C1_StaleRecoveryJump ==
    ( /\ pc \in {"top", "exec"}
      /\ last.kind = "stale"
      /\ last.provider # NoProvider
      /\ last.from > last.provider )
    => ( i = last.provider /\ timeOnState = 0 /\ stateCounter = 0 )

\* The third state fails on a dependency the first state provided, and the
\* first state's function is in flight again.
C1_Witness ==
    /\ pc = "exec"
    /\ last.kind = "stale"
    /\ last.from = 2
    /\ last.provider = 0
    /\ i = 0

\* C3 as claimed: every committed next(), previous() or transition(name) with
\* a valid target leaves elapsed-on-state and the iteration counter at zero
\* and the destination's name in the reached-set, which the listeners saw.
C3_AsClaimed ==
    [][ ( /\ HandlesProvide
          /\ Decision(inflight.p) \in {"next", "previous", "transition"}
          /\ TargetOf(inflight.p, i) >= 0 )
        => ( /\ timeOnState' = 0
             /\ stateCounter' = 0
             /\ NameAt(TargetOf(inflight.p, i)) \in reachedStates'
             /\ notified'.fired > 0 =>
                  NameAt(TargetOf(inflight.p, i)) \in notified'.saw ) ]_vars

\* C3, amended: the same for every valid target other than the current state.
C3_TransitionResets ==
    [][ ( /\ HandlesProvide
          /\ Decision(inflight.p) \in {"next", "previous", "transition"}
          /\ TargetOf(inflight.p, i) >= 0
          /\ TargetOf(inflight.p, i) # i )
        => ( /\ i' = TargetOf(inflight.p, i)
             /\ timeOnState' = 0
             /\ stateCounter' = 0
             /\ NameAt(TargetOf(inflight.p, i)) \in reachedStates'
             /\ notified'.fired > 0 =>
                  NameAt(TargetOf(inflight.p, i)) \in notified'.saw ) ]_vars

\* A transition by name to a state that had not been reached, with a
\* listener called, has committed.
C3_Witness ==
    /\ pc = "top"
    /\ last.kind = "transition"
    /\ last.from = 0
    /\ i = 2
    /\ notified.fired = 1
    /\ "C" \in notified.saw
    /\ "B" \notin reachedStates

C5_BudgetDecrementedOnce ==
    [][ ( pc = "settled" /\ pc' = "top" )
        => timeout' = timeout - inflight.delta ]_vars

\* C6: at the top of an iteration with no budget left and the end state not
\* reached, no state function is called and start() rejects with
\* TimeoutError; the loop does not run again.
C6_GlobalTimeout ==
    [][ /\ ( pc = "top" /\ timeout <= 0 /\ i < NumStates )
           => ( pc' = "done" /\ promise' = TimeoutError )
        /\ pc = "done" => pc' = "done" ]_vars

\* The budget ran out on a machine that had been asked to stop.
C6_Witness ==
    /\ pc = "done"
    /\ promise = TimeoutError
    /\ timeout <= 0
    /\ i < NumStates
    /\ ~running

\* C8: a benign failure of the state function (NoSuchElementError,
\* ElementClickInterceptedError) is not propagated, changes neither the
\* index, the reached-set, the dependencies, the timers nor the context,
\* calls no listener, and the same state is the one executed next.
C8_BenignRetry ==
    /\ [][ ( /\ pc = "settled"
             /\ inflight.kind = "throw"
             /\ inflight.err \in {NoSuchElementError, ElementClickInterceptedError} )
           => ( /\ pc' = "top"
                /\ promise' = promise
                /\ i' = i
                /\ reachedStates' = reachedStates
                /\ dependencies' = dependencies
                /\ timers' = timers
                /\ userContext' = userContext
                /\ notified'.fired = 0 ) ]_vars
    /\ []( ( /\ pc \in {"top", "exec"}
             /\ last.kind = "retry"
             /\ last.err \in {NoSuchElementError, ElementClickInterceptedError} )
           => i = last.from )

\* The second state is executed again after its click was intercepted.
C8_Witness ==
    /\ pc = "exec"
    /\ last.kind = "retry"
    /\ last.err = ElementClickInterceptedError
    /\ last.from = 1
    /\ i = 1

\* C9 as claimed: every failure of a state's execution that is neither a
\* tagged stale-reference error nor a benign failure ends the loop and rejects
\* start() with that error.
C9_AsClaimed ==
    [][ ( /\ HandlesFailure
          /\ ~InstanceOf(RaisedBy(inflight), StaleDependencyReferenceError)
          /\ RaisedBy(inflight) \notin
               {NoSuchElementError, ElementClickInterceptedError} )
        => ( pc' = "done" /\ promise' = RaisedBy(inflight) ) ]_vars

\* C9, amended: an untagged StaleElementReferenceError is retried on the same
\* state like a benign failure; every other failure that is neither tagged
\* stale nor benign ends the loop and rejects start() with that error.
C9_FatalClassification ==
    [][ /\ ( /\ HandlesFailure
             /\ ~InstanceOf(RaisedBy(inflight), StaleElementReferenceError)
             /\ RaisedBy(inflight) \notin
                  {NoSuchElementError, ElementClickInterceptedError} )
           => ( pc' = "done" /\ promise' = RaisedBy(inflight) )
        /\ ( HandlesFailure /\ RaisedBy(inflight) = StaleElementReferenceError )
           => ( pc' = "top" /\ promise' = promise /\ i' = i )
        /\ pc = "done" => pc' = "done" ]_vars

\* An unclassified error of the second state has ended the run.
C9_Witness ==
    /\ pc = "done"
    /\ promise = OtherError
    /\ last.kind = "fatal"
    /\ last.from = 1

\* C10: a stale-reference failure on a dependency without a provider makes
\* no jump and no retry, ends the loop and rejects start() with the
\* stale-reference error itself.
C10_StaleWithoutProvider ==
    [][ ( /\ HandlesFailure
          /\ inflight.err = StaleDependencyReferenceError
          /\ inflight.provider = NoProvider )
        => ( /\ pc' = "done"
             /\ i' = i
             /\ promise' = StaleDependencyReferenceError ) ]_vars


\* The recovery scenario's executions, in order.
ScenarioRun == <<"A", "B", "A", "B">>

\* C2: in the recovery scenario the states are executed in the order A, B, A,
\* B; when B failed, X is unset and still names A as its provider; the second
\* execution of A provides X again, with A as provider; and with enough
\* budget the run ends on 'end' with start() resolved.
C2_RecoveryScenario ==
    /\ []( /\ Len(execLog) <= 4
           /\ execLog = SubSeq(ScenarioRun, 1, Len(execLog))
           /\ ( Len(execLog) = 3 /\ pc = "exec" )
              => dependencies["X"] = [ value |-> Unset, provider |-> 0 ]
           /\ Len(execLog) = 4
              => dependencies["X"] = [ value |-> 1, provider |-> 0 ]
           /\ ( pc = "done" /\ promise = "resolved" )
              => ( execLog = ScenarioRun /\ currentState = "end" ) )
    /\ ( pc = "idle" /\ timeout >= 4 * MaxDelta )
         ~> ( pc = "done" /\ promise = "resolved" /\ currentState = "end" )

\* The scenario has run to the end state.
C2_Witness ==
    /\ pc = "done"
    /\ promise = "resolved"
    /\ currentState = "end"
    /\ execLog = ScenarioRun
    /\ timeout = 0

\* The loop's guard let an iteration of a registered state begin.
AtIterationTop == pc = "top" /\ running /\ timeout > 0 /\ i < NumStates

\* C7 as claimed: at the top of an iteration the run fails with TimeoutError,
\* the state function not called, when elapsed-on-state has exceeded the
\* state's timeout, and the state function is called when it has not.
C7_AsClaimed ==
    [][ AtIterationTop =>
          IF states[i + 1].timeout # Infinity
             /\ timeOnState > states[i + 1].timeout
          THEN pc' = "done" /\ promise' = TimeoutError
          ELSE pc' = "exec" ]_vars

\* C7, amended: the run fails with TimeoutError when elapsed-on-state has
\* reached the state's timeout (elapsed >= timeout), and the state function
\* is called when elapsed-on-state is below it; a state without a timeout is
\* never ended by this check.
C7_StateTimeout ==
    [][ AtIterationTop =>
          IF states[i + 1].timeout # Infinity
             /\ timeOnState >= states[i + 1].timeout
          THEN pc' = "done" /\ promise' = TimeoutError
          ELSE pc' = "exec" ]_vars

\* A state has run past its timeout and the run has timed out on it, with
\* budget left.
C7_Witness ==
    /\ pc = "done"
    /\ promise = TimeoutError
    /\ running
    /\ timeout > 0
    /\ i < NumStates
    /\ states[i + 1].timeout # Infinity
    /\ timeOnState > states[i + 1].timeout

\* C11: a committed Provide that selects previous() on the first state, or
\* transition(name) with a name no state is registered under, ends the run
\* with CriticalError; the index and the reached-set stay as they were and no
\* listener is called.
C11_InvalidTarget ==
    [][ ( /\ HandlesProvide
          /\ \/ Decision(inflight.p) = "previous" /\ i = 0
             \/ /\ Decision(inflight.p) = "transition"
                /\ NameMapGet(inflight.p.nextStateName) = -1 )
        => ( /\ pc' = "done"
             /\ promise' = CriticalError
             /\ i' = i
             /\ reachedStates' = reachedStates
             /\ notified'.fired = 0 ) ]_vars

\* previous() on the first state of a machine with a listener has ended the
\* run.
C11_Witness ==
    /\ pc = "done"
    /\ promise = CriticalError
    /\ last.kind = "previous"
    /\ last.from = 0
    /\ i = 0
    /\ Len(transitionCallbacks) = 1
    /\ notified.fired = 0

\* C12: a state function that calls provide.dependency for an id its chain
\* has already written ends the run with CriticalError, and the machine's
\* dependency map is the one from before the cycle: neither write reached it.
C12_DuplicateWrite ==
    [][ ( pc = "settled" /\ inflight.rewrote # "" )
        => ( /\ inflight.kind = "throw"
             /\ inflight.err = CriticalError
             /\ pc' = "done"
             /\ promise' = CriticalError
             /\ dependencies' = dependencies ) ]_vars

\* The second state wrote X twice, after the first state had provided it: the
\* run has ended and X is still the first state's.
C12_Witness ==
    /\ pc = "done"
    /\ promise = CriticalError
    /\ last.rewrote = "X"
    /\ last.from = 1
    /\ dependencies["X"] = [ value |-> 1, provider |-> 0 ]

\* C13: a returned Provide on which no terminal verb was selected ends the
\* run with CriticalError; it is not a repeat, the loop does not go on, and
\* the index stays as it was.
C13_MissingDecision ==
    [][ ( HandlesProvide /\ Decision(inflight.p) = "none" )
        => ( /\ pc' = "done"
             /\ promise' = CriticalError
             /\ i' = i
             /\ stateCounter' = stateCounter + 1 ) ]_vars

\* The second state returned a Provide without a decision and the run ended.
C13_Witness ==
    /\ pc = "done"
    /\ promise = CriticalError
    /\ last.kind = "none"
    /\ last.from = 1
    /\ i = 1

C15_Invalidate ==
    depCall.op = "invalidate"
    => ( /\ depCall.thrown = StaleDependencyReferenceError
         /\ depCall.ret = depCall.on
         /\ heap[depCall.on].value = Unset
         /\ DependencyValue(heap[depCall.on]).thrown = CriticalError
         /\ heap[depCall.on].name = depCall.before.name
         /\ heap[depCall.on].provider = depCall.before.provider )

\* An instance that held a value and had a provider has been invalidated.
C15_Witness ==
    /\ depCall.op = "invalidate"
    /\ depCall.before.value = 2
    /\ depCall.before.provider = 1
    /\ heap[depCall.on].value = Unset
    /\ heap[depCall.on].provider = 1

\* C16: ready answers true when the instance holds a value and false when it
\* does not; it raises nothing.
C16_Ready ==
    depCall.op = "ready"
    => ( /\ depCall.thrown = NoError
         /\ depCall.ready = (heap[depCall.on].value # Unset) )

\* C17: no name ever leaves the reached-set; once start() has been called the
\* name of the state the index points to is in the set, the entry state's
\* from start() on and every other ('end' included) from the step that moved
\* the index to it.
C17_ReachedMonotone ==
    /\ [][ /\ reachedStates \subseteq reachedStates'
           /\ i' # i => NameAt(i') \in reachedStates' ]_vars
    /\ []( promise # "none" => currentState \in reachedStates )
    /\ []( promise # "none" /\ NumStates > 0 => NameAt(0) \in reachedStates )

\* The machine went through every state, was sent back to the first by a
\* stale dependency and was stopped: the states it left are still reached.
C17_Witness ==
    /\ pc = "top"
    /\ last.kind = "stale"
    /\ i = 0
    /\ ~running
    /\ reachedStates = {"A", "B", "C"}

\* C18: whatever the transition listeners do, the continuation of the loop
\* comes to what it comes to with listeners that return: the same state next,
\* the same budget, the same fate of start().
C18_ListenerIsolation ==
    [][ pc = "settled"
        => LET quiet == Continuation(inflight, inflight.delta, AllOk)
           IN  /\ i' = quiet.m.i
               /\ timeout' = quiet.m.timeout
               /\ promise' = ( IF quiet.fatal # NoError THEN quiet.fatal
                               ELSE promise ) ]_vars

\* The continuation in hand commits a transition to another state: a next(),
\* previous() or transition(name) with a valid target, or the jump to the
\* provider of a stale dependency.
CommitsTransition ==
    /\ pc = "settled"
    /\ \/ /\ inflight.kind = "provide"
          /\ Decision(inflight.p) \in {"next", "previous", "transition"}
          /\ TargetOf(inflight.p, i) >= 0
          /\ TargetOf(inflight.p, i) # i
       \/ /\ inflight.kind = "throw"
          /\ inflight.err = StaleDependencyReferenceError
          /\ inflight.provider \notin {NoProvider, i}

\* C19: every registered listener is called once for each committed
\* transition to another state, with the transition committed, and none is
\* called for a repeat or for the retry after a benign failure.
C19_ListenersCalledOnce ==
    [][ /\ CommitsTransition
           => ( /\ notified'.fired = Len(transitionCallbacks)
                /\ notified'.saw = reachedStates'
                /\ currentState' \in notified'.saw )
        /\ ( pc = "settled"
             /\ \/ HandlesProvide /\ Decision(inflight.p) = "repeat"
                \/ inflight.kind = "throw"
                   /\ inflight.err \in {NoSuchElementError,
                                        ElementClickInterceptedError} )
           => notified'.fired = 0 ]_vars

\* stop() was called while the state function was in flight, and the state
\* function has settled.
SettledAfterStop == pc = "settled" /\ ~running

\* C20: after a stop() during a state function's execution the result of that
\* execution is handled as ever (a returned Provide's updates reach the
\* dependency map and its transition is made, a stale dependency sends the
\* machine to the provider), and then the loop ends without another state
\* function being called.
C20_CooperativeStop ==
    [][ /\ ( SettledAfterStop /\ inflight.kind = "provide" )
           => ( /\ dependencies' = Merge(dependencies, inflight.p.updateMap)
                /\ stateCounter' \in {0, stateCounter + 1}
                /\ ( Decision(inflight.p) # "none"
                     /\ TargetOf(inflight.p, i) >= 0 )
                   => i' = TargetOf(inflight.p, i) )
        /\ ( /\ SettledAfterStop
             /\ inflight.kind = "throw"
             /\ inflight.err = StaleDependencyReferenceError
             /\ inflight.provider # NoProvider )
           => i' = inflight.provider
        /\ ( pc = "top" /\ ~running ) => pc' = "done"
        /\ pc = "done" => pc' = "done" ]_vars

\* The machine was stopped while its first state was in flight: the state's
\* Provide was committed, the second state was not executed and start()
\* resolved.
C20_Witness ==
    /\ pc = "done"
    /\ ~running
    /\ promise = "resolved"
    /\ last.kind = "next"
    /\ last.from = 0
    /\ i = 1
    /\ NumStates = 2
    /\ dependencies["X"] = [ value |-> 1, provider |-> 0 ]

\* C21 as claimed: when the loop is left at its top, start() resolves if the
\* terminal index was reached or stop() had been requested, and rejects with
\* TimeoutError otherwise.
C21_AsClaimed ==
    [][ ( pc = "top" /\ pc' = "done" )
        => promise' = ( IF i = NumStates \/ ~running
                        THEN "resolved" ELSE TimeoutError ) ]_vars

\* C21, amended: when the loop is left at its top, start() resolves if the
\* terminal index was reached, or if stop() had been requested and budget is
\* left, and rejects with TimeoutError otherwise (also after a stop(), when
\* the budget is used up); when the loop is left from a cycle, start() rejects
\* with the error of that cycle.
C21_CompletionHandle ==
    [][ ( pc # "done" /\ pc' = "done" )
        => IF pc = "top"
           THEN promise' = ( IF i = NumStates \/ (~running /\ timeout > 0)
                             THEN "resolved" ELSE TimeoutError )
           ELSE /\ pc = "settled"
                /\ promise' \in ThrownErrors
                /\ promise' = last'.err ]_vars

\* A machine that retried its first state was stopped with budget left, and
\* start() resolved.
C21_Witness ==
    /\ pc = "done"
    /\ promise = "resolved"
    /\ ~running
    /\ timeout = 1
    /\ i = 0
    /\ NumStates = 1
    /\ last.kind = "retry"

C23_BudgetWriteProtection ==
    [][ ( /\ pc = "exec"
          /\ probe' # probe
          /\ probe'.op = "timeout=" )
        => ( probe'.thrown = CriticalError /\ timeout' = timeout ) ]_vars

\* An assignment during a run that was not stopped raised CriticalError.
C23_Refused ==
    /\ pc = "exec"
    /\ running
    /\ probe.op = "timeout="
    /\ probe.thrown = CriticalError

\* C26: a timer created with timeout T at budget B keeps the deadline
\* max(0, B - T) until it is created again or cleared;
\* machine.hasElapsedTimer(name) answers true exactly when the budget left is
\* at most the timer's deadline, and raises CriticalError for a name without
\* a timer.
C26_TimerSemantics ==
    [][ /\ ( /\ pc # "settled"
             /\ probe'.op = "createTimer"
             /\ ( probe' # probe \/ timers' # timers ) )
           => ( /\ probe'.name \in DOMAIN timers'
                /\ timers'[probe'.name] = Max(0, timeout - probe'.arg) )
        /\ ( HandlesProvide /\ pc' = "top" )
           => \A k \in 1..Len(inflight.p.newTimers) :
                /\ inflight.p.newTimers[k].name \in DOMAIN timers'
                /\ timers'[inflight.p.newTimers[k].name]
                     = Max(0, timeout' - inflight.p.newTimers[k].timeout)
        /\ \A n \in (DOMAIN timers) \cap (DOMAIN timers') :
             timers'[n] # timers[n]
             => IF pc = "settled"
                THEN \E k \in 1..Len(inflight.p.newTimers) :
                        inflight.p.newTimers[k].name = n
                ELSE probe'.op = "createTimer" /\ probe'.name = n
        /\ ( probe' # probe /\ probe'.op = "hasElapsedTimer" )
           => IF probe'.name \in DOMAIN timers
              THEN /\ probe'.thrown = NoError
                   /\ probe'.ret = Answer(timeout <= timers[probe'.name])
              ELSE probe'.thrown = CriticalError ]_vars

\* A timer created with timeout 1 at budget 2 is reported elapsed during a
\* run that has used up 1 of the budget.
C26_Witness ==
    /\ pc = "exec"
    /\ probe.op = "hasElapsedTimer"
    /\ probe.ret = "true"
    /\ "t" \in DOMAIN timers
    /\ timers["t"] = 1
    /\ timeout = 1

\* C27: for an existing timer, provide.hasElapsedTimer(name) called by the
\* state function in flight answers what machine.hasElapsedTimer(name)
\* answers at that moment.
C27_ProvideTimerAgrees ==
    [][ ( /\ pc = "exec"
          /\ probe' # probe
          /\ probe'.op = "provide.hasElapsedTimer"
          /\ probe'.name \in DOMAIN timers )
        => probe'.ret = MachineHasElapsedTimer(timers, probe'.name, timeout).ret ]_vars

\* The state function asked about an existing timer and got the machine's
\* answer.
C27_Agreed ==
    /\ pc = "exec"
    /\ probe.op = "provide.hasElapsedTimer"
    /\ probe.name \in DOMAIN timers
    /\ probe.ret = "true"
    /\ probe.ret = MachineHasElapsedTimer(timers, probe.name, timeout).ret

\* C28: a cycle that commits a Provide with the patch P leaves the user
\* context as the context before it with P's keys at P's values; without a
\* patch the context stays as it was.
C28_ShallowMerge ==
    [][ ( HandlesProvide /\ pc' = "top" )
        => userContext' = Merge(userContext, inflight.patch) ]_vars

\* A cycle committed a patch of a new key, and the context has it.
C28_Patched ==
    /\ pc = "top"
    /\ last.kind \in {"repeat", "next"}
    /\ "note" \in DOMAIN userContext
    /\ userContext["note"] = 1
    /\ probe = NoProbe

\* C25: waitUntilReached returns only when the name is in the reached-set or
\* its timeout has elapsed; it returns at once, without polling, when the
\* name was reached before the call, whatever the current state is; and with
\* a finite timeout it returns.
C25_WaitUntilReached ==
    /\ []( waiter.pc = "returned"
           => \/ waiter.name \in reachedStates
              \/ waiter.left # Infinity /\ waiter.left <= 0 )
    /\ [][ ( /\ waiter.pc = "none"
             /\ waiter'.pc # "none"
             /\ waiter'.name \in reachedStates )
           => waiter'.pc = "returned" ]_vars
    /\ ( waiter.pc = "polling" /\ waiter.timeout # Infinity )
         ~> ( waiter.pc = "returned" )

\* A call for the first state, made when the machine had moved on to the
\* second, returned at once.
C25_Witness ==
    /\ waiter.pc = "returned"
    /\ waiter.name = "A"
    /\ waiter.left = waiter.timeout
    /\ waiter.timeout = Infinity
    /\ currentState = "B"
    /\ pc = "exec"

\* C24: a start() issued while the state function of an earlier run is in
\* flight begins no second loop, so that at most one state function is in
\* flight and one loop advances the machine.
C24_SingleExecution ==
    /\ ~( pc = "exec" /\ pc2 = "exec" )
    /\ pc2 \in {"idle", "done"}

\* A start() during a run that was not stopped was rejected with
\* CriticalError.
C24_Refused ==
    /\ pc = "exec"
    /\ running
    /\ pc2 = "done"
    /\ promise2 = CriticalError

\* C29: the k-th state added has index k - 1 and keeps its place; a machine
\* is started on its first state; next() from the state at index i leads to
\* index i + 1, and from the last state to 'end'.
C29_RegistrationOrder ==
    /\ []( \A k \in 1..NumStates :
             states[k].index = k - 1 /\ states[k].name = StateNames[k] )
    /\ [][ /\ Len(states') >= Len(states)
           /\ SubSeq(states', 1, Len(states)) = states
           /\ ( pc = "idle" /\ pc' # "idle" )
              => ( i' = 0 /\ currentState' = NameAt(0) )
           /\ ( HandlesProvide /\ Decision(inflight.p) = "next" )
              => ( /\ i' = i + 1
                   /\ i = NumStates - 1 => currentState' = "end" ) ]_vars

\* A machine of three states went from each to the next and reached 'end'.
C29_Witness ==
    /\ pc = "done"
    /\ promise = "resolved"
    /\ NumStates = 3
    /\ i = 3
    /\ last.kind = "next"
    /\ last.from = 2
    /\ currentState = "end"

\* C30: a cycle that ends in a failure leaves the dependency map, the timer
\* map and the user context as they were when the state function settled.
C30_CommitAtomicity ==
    [][ ( /\ pc = "settled"
          /\ \/ pc' = "done"
             \/ RaisedBy(inflight) # NoError )
        => ( /\ dependencies' = dependencies
             /\ timers' = timers
             /\ userContext' = userContext ) ]_vars

\* C31: the provider of the instance the dependency map holds under an id is
\* the state whose committed cycle wrote the id last: a cycle that commits
\* leaves the ids it wrote with the executed state as provider, no other
\* step changes the provider under an id a committed cycle has written (one
\* that has a provider while the run goes on), and a stale failure on the
\* map's instance takes the machine to that provider.
C31_ProviderTracking ==
    [][ /\ \A d \in DepIds :
             IF HandlesProvide /\ pc' = "top" /\ d \in DOMAIN inflight.p.updateMap
             THEN dependencies'[d].provider = i
             ELSE dependencies[d].provider # NoProvider
                  => dependencies'[d].provider = dependencies[d].provider
        /\ ( /\ pc = "settled"
             /\ inflight.kind = "throw"
             /\ inflight.err = StaleDependencyReferenceError
             /\ pc' = "top" )
           => i' = dependencies[inflight.dep].provider ]_vars

\* The second state's committed cycle wrote X after the first state's had,
\* and is X's provider.
C31_Witness ==
    /\ pc = "top"
    /\ last.kind = "next"
    /\ last.from = 1
    /\ i = 2
    /\ dependencies["X"].provider = 1
    /\ dependencies["X"].value # Unset

\* C32 as claimed: during a run the index is the number of states only after
\* a next() from the last state.
C32_AsClaimed ==
    ( pc # "idle" /\ i = NumStates )
    => ( last.kind = "next" /\ last.from = NumStates - 1 )

\* C32: the index is at least 0 and at most the number of states; a state
\* function is in flight only for an index below the number of states; on a
\* machine that has states the index is the number of states only after a
\* next() from the last state.
C32_CurrentIndex ==
    /\ 0 <= i
    /\ i <= NumStates
    /\ pc \in {"exec", "settled"} => i < NumStates
    /\ ( i = NumStates /\ NumStates > 0 )
       => ( last.kind = "next" /\ last.from = NumStates - 1 )

\* A run of three states is at the end after a next() from the third.
C32_Witness ==
    /\ pc = "top"
    /\ NumStates = 3
    /\ i = NumStates
    /\ last.kind = "next"
    /\ last.from = 2

\* C33 as claimed: the run is ended by a state's own timeout only after a
\* successful cycle that stayed on that state.
C33_AsClaimed ==
    [][ ( AtIterationTop /\ pc' = "done" /\ promise' = TimeoutError )
        => stateCounter > 0 ]_vars

\* C33: an attempt that fails with a stale or a benign error and leaves the
\* machine on its state changes neither elapsed-on-state nor the iteration
\* counter, and every failed attempt the loop goes on after takes its delta
\* from the budget; a state with a timeout above zero ends the run by that
\* timeout only after a successful cycle that stayed on it.
C33_FailedAttempts ==
    [][ /\ ( HandlesFailure /\ pc' = "top" )
           => ( /\ timeout' = timeout - inflight.delta
                /\ i' = i => ( /\ timeOnState' = timeOnState
                               /\ stateCounter' = stateCounter ) )
        /\ ( /\ AtIterationTop
             /\ pc' = "done"
             /\ promise' = TimeoutError
             /\ states[i + 1].timeout > 0 )
           => stateCounter > 0 ]_vars

\* A benign failure on a state with a timeout of its own, which had repeated
\* once, left its elapsed time and its counter as they were and took its
\* delta from the budget.
C33_Witness ==
    /\ pc = "top"
    /\ last.kind = "retry"
    /\ stateCounter = 1
    /\ timeOnState = 0
    /\ timeout < MaxBudget + MaxDelta
    /\ states[i + 1].timeout # Infinity
    /\ states[i + 1].timeout > 0

\* The outcome in hand leads to the current index: a stale failure on a
\* dependency the executed state provided, or a committed transition(name)
\* with the executed state's name.
SelfTargeted ==
    /\ pc = "settled"
    /\ \/ /\ inflight.kind = "throw"
          /\ inflight.err = StaleDependencyReferenceError
          /\ inflight.provider = i
       \/ /\ inflight.kind = "provide"
          /\ Decision(inflight.p) = "transition"
          /\ NameMapGet(inflight.p.nextStateName) = i

\* C34: a stale-recovery jump or a transition whose target is the current
\* index leaves the machine on its state, for the next execution, with
\* elapsed-on-state and the iteration counter not reset (as the failed
\* attempt left them, or with the successful cycle counted), calls no
\* listener and leaves the reached-set as it was.
C34_SelfTargetedJump ==
    [][ SelfTargeted
        => ( /\ pc' = "top"
             /\ i' = i
             /\ IF inflight.kind = "throw"
                THEN /\ timeOnState' = timeOnState
                     /\ stateCounter' = stateCounter
                ELSE /\ timeOnState' = timeOnState + inflight.delta
                     /\ stateCounter' = stateCounter + 1
             /\ notified'.fired = 0
             /\ reachedStates' = reachedStates ) ]_vars

\* A state that had repeated once failed on a dependency it provided itself:
\* it is the current state still, its counter kept, with a listener
\* registered and not called.
C34_Witness ==
    /\ pc = "top"
    /\ last.kind = "stale"
    /\ last.provider = last.from
    /\ i = last.from
    /\ stateCounter = 1
    /\ Len(transitionCallbacks) = 1
    /\ notified.fired = 0

\* C35: several terminal verbs can be recorded on one Provide, and the driver
\* applies one: a repeat if tryAgain() was recorded; else one state on if
\* next() was; else one state back (CriticalError on the first state) if
\* previous() was; else the transition to the name recorded (CriticalError
\* for an unknown name).  The verbs recorded besides have no effect.
C35_DecisionPrecedence ==
    [][ HandlesProvide =>
          LET p == inflight.p
              named == NameMapGet(p.nextStateName)
              goes(target) ==
                  /\ pc' = "top"
                  /\ i' = target
                  /\ target # i => timeOnState' = 0 /\ stateCounter' = 0
              fails ==
                  /\ pc' = "done"
                  /\ promise' = CriticalError
                  /\ i' = i
          IN  IF p.repeat THEN
                  /\ goes(i)
                  /\ timeOnState' = timeOnState + inflight.delta
                  /\ stateCounter' = stateCounter + 1
                  /\ reachedStates' = reachedStates
              ELSE IF p.next THEN goes(i + 1)
              ELSE IF p.prev THEN ( IF i = 0 THEN fails ELSE goes(i - 1) )
              ELSE IF p.nextStateName # ""
                   THEN ( IF named = -1 THEN fails ELSE goes(named) )
              ELSE fails ]_vars

\* A Provide of the first state with tryAgain(), next(), previous() and the
\* transition to an unknown name recorded was committed as a repeat.
C35_Witness ==
    /\ pc = "top"
    /\ last.said = {"repeat", "next", "previous", "transition"}
    /\ last.kind = "repeat"
    /\ last.from = 0
    /\ i = 0
    /\ stateCounter = 1
    /\ UnknownName \notin reachedStates

\* C36: when every state function settles and every attempt measures a delta
\* of at least 1, a run that was started settles: the promise of start()
\* resolves or rejects.
C36_Termination ==
    ( promise = "pending" ) ~> ( promise # "pending" )

\* On a machine with a budget of 2, a run of one repeat and one benign
\* failure has used up the budget and was rejected with TimeoutError.
C36_Witness ==
    /\ pc = "done"
    /\ promise = TimeoutError
    /\ running
    /\ timeout = 0
    /\ userContext["timeout"] = 2
    /\ i = 0
    /\ stateCounter = 1
    /\ last.kind = "retry"

====
